---- MODULE Spec2Model ----
(***************************************************************************)
(* Model of the flecs core: the table store (src/src/table.c) and the      *)
(* query matcher (src/src/query.c).                                        *)
(*                                                                         *)
(* Spec   : one table, its primary columns, the world flags and the        *)
(*          entity index writes, driven by ecs_table_insert /              *)
(*          ecs_table_grow / ecs_table_delete / ecs_table_register_system. *)
(* QSpec  : a world of tables and queries over one signature, driven by    *)
(*          ecs_new_query / table creation / ecs_query_match_table.        *)
(***************************************************************************)
EXTENDS Integers, Sequences, FiniteSets, TLC

VARIABLES
    type,            \* table->type: sequence of component ids
    columns,         \* table->columns: columns[1] is C column 0 (entity ids)
    frame_systems,   \* table->frame_systems
    stage_columns,   \* stage->data_stage[type_id], <<>> when absent
    in_progress,     \* world->in_progress
    should_resolve,  \* world->should_resolve
    last,            \* observation of the last call: arguments, result, effects
    failures,        \* allocations the environment has failed so far
    notes,           \* per system: the last notification the table sent it
    qworld,          \* world->tables, in creation order (indexes into TableTypes)
    queries,         \* world->queries
    aborted,         \* a fatal ecs_assert fired: the process is gone
    offers,          \* per table of qworld: times it was offered to the query
    qlast,           \* observation of the last query call
    eval,            \* table->flags and the table's prefab index entry
    freed            \* the allocations ecs_query_free released, {} before it

tvars == <<type, columns, frame_systems, stage_columns, in_progress,
           should_resolve, last, failures, notes>>
qvars == <<qworld, queries, aborted, offers, qlast>>
evars == <<eval, freed>>
vars == <<type, columns, frame_systems, stage_columns, in_progress,
          should_resolve, last, failures, notes,
          qworld, queries, aborted, offers, qlast, eval, freed>>

(***************************************************************************)
(* Bounds                                                                  *)
(***************************************************************************)
MaxRows == 2
MaxEntity == 2
MaxStageRows == 1
MaxSystems == 1
MaxGrow == 2
MaxFail == 1

Entities == 1..MaxEntity
Systems == 1..MaxSystems

Max(a, b) == IF a >= b THEN a ELSE b
Min(a, b) == IF a <= b THEN a ELSE b

(***************************************************************************)
(* The world the tables and queries live in: the ids of the builtin        *)
(* markers, the components, and the entities other entities refer to.      *)
(*   CompA, CompB  components with data; TagT a component of size 0 (a tag) *)
(*   ParentP   an entity whose table is <<CompA>>, a parent of entities     *)
(*   ParentP2  an entity whose table is <<CompB>>, a parent of entities     *)
(*   PrefabPF  a prefab whose table is <<EEcsPrefab, CompA>>                *)
(*   SourceE   an entity whose table is <<CompA, TagT>>, read by Entity     *)
(*             columns                                                      *)
(*   SystemS   the system that owns the query, its table is <<CompA>>       *)
(***************************************************************************)
EEcsComponent == 1
EEcsPrefab == 2
EEcsDisabled == 3
CompA == 4
CompB == 5
TagT == 6
ParentP == 7
ParentP2 == 8
PrefabPF == 9
SourceE == 10
SystemS == 11

\* ids issued after the system: the EcsPrefabParent component, a second
\* prefab, and the flag ids that name PrefabPF and PrefabPG as prefab parents
EEcsPrefabParent == SystemS + 1
PrefabPG == SystemS + 2
FlagF1 == SystemS + 3
FlagF2 == SystemS + 4

\* the CHILDOF role flag and the mask that strips it
ECS_CHILDOF == 100
ChildOf(e) == ECS_CHILDOF + e
HasChildOf(id) == id >= ECS_CHILDOF
EntityMask(id) == id % ECS_CHILDOF

TableTypeId == 1

\* EcsComponent.size of a component, 0 for a tag
ComponentSize(c) == IF c = CompA THEN 4 ELSE IF c = CompB THEN 8 ELSE 0

\* sizeof(ecs_entity_t)
EntitySize == 8

\* the types a table under test can have
StoreTypes == { <<TagT>>, <<CompA, TagT>> }

\* ecs_get_type(world, entity): the type of the table the entity is in
EntityType(e) ==
    IF e \in {CompA, CompB, TagT} THEN <<EEcsComponent>>
    ELSE IF e = ParentP THEN <<CompA>>
    ELSE IF e = ParentP2 THEN <<CompB>>
    ELSE IF e = PrefabPF THEN <<EEcsPrefab, CompA>>
    ELSE IF e = SourceE THEN <<CompA, TagT>>
    ELSE IF e = SystemS THEN <<CompA>>
    ELSE IF e = PrefabPG THEN <<EEcsPrefab, CompB>>
    ELSE IF e \in {FlagF1, FlagF2} THEN <<EEcsPrefabParent>>
    ELSE <<>>

TypeHas(t, id) == \E i \in 1..Len(t) : t[i] = id

\* ecs_has(world, component, EcsComponent)
IsComponent(c) == TypeHas(EntityType(c), EEcsComponent)

\* a prefab is an entity that has the EcsPrefab tag
IsPrefabEntity(e) == TypeHas(EntityType(e), EEcsPrefab)

\* ecs_has(world, c, EcsPrefabParent)
HasPrefabParent(c) == TypeHas(EntityType(c), EEcsPrefabParent)

\* ecs_get_ptr(world, c, EcsPrefabParent)->parent
PrefabParentOf(c) ==
    IF c = FlagF1 THEN PrefabPF ELSE IF c = FlagF2 THEN PrefabPG ELSE 0

(***************************************************************************)
(* ecs_vector_t: NULL is [alloc |-> FALSE]. `size` is the capacity in      *)
(* elements, `data` the elements (count = Len(data)).                      *)
(***************************************************************************)
NullVector == [alloc |-> FALSE, size |-> 0, data |-> <<>>]

ecs_vector_count(v) == Len(v.data)

\* growing by n elements needs an allocation: the vector is NULL or full
NeedsAlloc(v, n) == (~v.alloc) \/ (Len(v.data) + n > v.size)

\* ecs_vector_add / ecs_vector_addn, the successful outcome: the elements xs
\* are appended, the capacity doubles when exceeded
ecs_vector_addn(v, xs) ==
    [alloc |-> TRUE,
     size  |-> IF NeedsAlloc(v, Len(xs))
               THEN Max(Max(2 * v.size, Len(v.data) + Len(xs)), 1)
               ELSE v.size,
     data  |-> v.data \o xs]

ecs_vector_add(v, x) == ecs_vector_addn(v, <<x>>)

\* ecs_vector_remove_last: count-- when there is an element
ecs_vector_remove_last(v) ==
    IF Len(v.data) = 0 THEN v
    ELSE [v EXCEPT !.data = SubSeq(v.data, 1, Len(v.data) - 1)]

\* ecs_vector_remove_index(v, index), index 0-based: the last element is
\* moved onto index, count--
ecs_vector_remove_index(v, index) ==
    IF index >= Len(v.data) THEN v
    ELSE LET n == Len(v.data)
             moved == [v.data EXCEPT ![index + 1] = v.data[n]]
         IN [v EXCEPT !.data = SubSeq(moved, 1, n - 1)]

(***************************************************************************)
(* new_columns: column 0 for entity ids, one column per type element with  *)
(* the component's size (0 for tags)                                       *)
(***************************************************************************)
new_columns(t) ==
    [i \in 1..(Len(t) + 1) |->
        [size |-> IF i = 1 THEN EntitySize ELSE ComponentSize(t[i - 1]),
         data |-> NullVector]]


(***************************************************************************)
(* Helpers over a column array. C column i is cols[i + 1].                 *)
(***************************************************************************)
ColumnCount(cols) == Len(cols) - 1

Entity0(cols) == cols[1].data.data

RowCount(cols) == ecs_vector_count(cols[1].data)

\* the value `return -1` yields, as the caller compares it ((uint32_t) -1)
RowSentinel == 0 - 1

NoFail == 0 - 1

\* no write to the entity index
NoRow == [entity |-> 0, type_id |-> 0, index |-> 0]

\* the vector pointer of column v differs after growing it by n elements:
\* always when it was NULL, and when realloc moved it (i \in mv)
PtrChanged(v, n, i, mv) == NeedsAlloc(v, n) /\ ((~v.alloc) \/ i \in mv)

\* activate_table(world, table, system, activate): the notifications sent
activate_table(systems, system, activate) ==
    IF system # 0
    THEN << [system |-> system, activate |-> activate] >>
    ELSE [k \in 1..Len(systems) |-> [system |-> systems[k], activate |-> activate]]

(***************************************************************************)
(* What each system has seen of the table: "unregistered" until the system *)
(* is in frame_systems, "none" once it was registered on the empty table,  *)
(* then the last notification sent to it; "untracked" when it was          *)
(* registered on a non-empty table.  The record is kept in the runs that   *)
(* start with NoNotes and is left out (Unobserved) in the others.          *)
(***************************************************************************)
NoNotes == [s \in Systems |-> "unregistered"]

Unobserved == <<>>

NoteSent(sent, s) ==
    IF \E k \in 1..Len(sent) : sent[k].system = s /\ sent[k].activate
    THEN "activate" ELSE "deactivate"

Observe(n, call, wasEmpty, systems) ==
    IF n = Unobserved THEN n
    ELSE
    [s \in Systems |->
        IF call.op = "register" /\ call.arg = s
        THEN IF ~(\E k \in 1..Len(systems) : systems[k] = s) THEN n[s]
             ELSE IF wasEmpty THEN "none" ELSE "untracked"
        ELSE IF n[s] \in {"unregistered", "untracked"} THEN n[s]
        ELSE IF \E k \in 1..Len(call.sent) : call.sent[k].system = s
        THEN NoteSent(call.sent, s)
        ELSE n[s]]

(***************************************************************************)
(* ecs_table_insert(world, table, cols, entity).                           *)
(* failAt: the C column whose vector growth fails (NoFail: none);          *)
(* mv: the columns whose grown vector is moved by realloc.                 *)
(***************************************************************************)
InsertTouches(cols, i) == i = 0 \/ cols[i + 1].size # 0

InsertCell(cols, i, entity) == entity

InsertFailPoints(cols) ==
    { i \in 0..ColumnCount(cols) :
        InsertTouches(cols, i) /\ NeedsAlloc(cols[i + 1].data, 1) }

InsertColumns(cols, entity, failAt) ==
    [k \in 1..Len(cols) |->
        IF InsertTouches(cols, k - 1) /\ (failAt = NoFail \/ k - 1 < failAt)
        THEN [cols[k] EXCEPT !.data = ecs_vector_add(@, InsertCell(cols, k - 1, entity))]
        ELSE cols[k]]

InsertMoved(cols, failAt, mv) ==
    { i \in 0..ColumnCount(cols) :
        /\ InsertTouches(cols, i)
        /\ (failAt = NoFail \/ i < failAt)
        /\ PtrChanged(cols[i + 1].data, 1, i, mv) }

\* `reallocd`: old_vector != columns[i].data for some data column i >= 1
InsertReallocd(cols, failAt, mv) ==
    \E i \in InsertMoved(cols, failAt, mv) : i >= 1

\* index = ecs_vector_count(columns[0].data) - 1, taken after the appends
InsertIndex(cols, entity) == RowCount(InsertColumns(cols, entity, NoFail)) - 1

InsertActivates(cols, entity, inprog) ==
    (~inprog) /\ InsertIndex(cols, entity) = 0

InsertResolve(cols, failAt, mv, isPrimary) ==
    failAt = NoFail /\ InsertReallocd(cols, failAt, mv) /\ isPrimary

\* a slip: the 0-based index is returned
InsertReturn_ZeroBased(cols, entity, failAt) ==
    IF failAt # NoFail THEN RowSentinel ELSE InsertIndex(cols, entity)

InsertReturn(cols, entity, failAt) ==
    IF failAt # NoFail THEN RowSentinel ELSE InsertIndex(cols, entity) + 1

Targets == {"primary", "stage"}

TargetColumns(target) == IF target = "primary" THEN columns ELSE stage_columns

TargetOk(target) ==
    \/ target = "primary"
    \/ target = "stage" /\ in_progress /\ stage_columns # <<>>

TargetRoom(target) == IF target = "primary" THEN MaxRows ELSE MaxStageRows

Insert(target, entity, failAt, mv) ==
    LET cols   == TargetColumns(target)
        ncols  == InsertColumns(cols, entity, failAt)
        sent   == IF failAt = NoFail /\ InsertActivates(cols, entity, in_progress)
                  THEN activate_table(frame_systems, 0, TRUE) ELSE <<>>
    IN
    /\ TargetOk(target)
    /\ RowCount(cols) < TargetRoom(target)
    /\ \A k \in 1..RowCount(cols) : Entity0(cols)[k] # entity
    /\ failAt \in {NoFail} \cup InsertFailPoints(cols)
    /\ \A i \in mv : /\ i <= ColumnCount(cols)
                     /\ InsertTouches(cols, i)
                     /\ (failAt = NoFail \/ i < failAt)
                     /\ cols[i + 1].data.alloc
                     /\ NeedsAlloc(cols[i + 1].data, 1)
    /\ IF target = "primary"
       THEN columns' = ncols /\ UNCHANGED stage_columns
       ELSE stage_columns' = ncols /\ UNCHANGED columns
    /\ should_resolve' =
          (should_resolve \/ InsertResolve(cols, failAt, mv, target = "primary"))
    /\ last' = [op |-> "insert", target |-> target, arg |-> entity,
                ret |-> InsertReturn(cols, entity, failAt),
                index_set |-> NoRow, moved |-> InsertMoved(cols, failAt, mv),
                sent |-> sent]
    /\ failures' = IF failAt = NoFail THEN failures ELSE failures + 1
    /\ UNCHANGED <<type, frame_systems, in_progress>>
    /\ UNCHANGED qvars
    /\ UNCHANGED evars
    /\ notes' = Observe(notes, last', RowCount(columns) = 0, frame_systems')

(***************************************************************************)
(* ecs_table_grow(world, table, cols, count, first_entity): every column   *)
(* 1..column_count is grown by count elements, whatever its element size.  *)
(***************************************************************************)
GrowEntities(count, first_entity) == [k \in 1..count |-> first_entity + (k - 1)]

GrowCells(cols, i, count, first_entity) ==
    IF i = 0 \/ cols[i + 1].size # 0
    THEN GrowEntities(count, first_entity)
    ELSE [k \in 1..count |-> 0]

GrowFailPoints(cols, count) ==
    { i \in 0..ColumnCount(cols) : NeedsAlloc(cols[i + 1].data, count) }

GrowColumns(cols, count, first_entity, failAt) ==
    [k \in 1..Len(cols) |->
        IF failAt = NoFail \/ k - 1 < failAt
        THEN [cols[k] EXCEPT
                !.data = ecs_vector_addn(@, GrowCells(cols, k - 1, count, first_entity))]
        ELSE cols[k]]

GrowMoved(cols, count, failAt, mv) ==
    { i \in 0..ColumnCount(cols) :
        /\ (failAt = NoFail \/ i < failAt)
        /\ PtrChanged(cols[i + 1].data, count, i, mv) }

GrowReallocd(cols, count, failAt, mv) ==
    \E i \in GrowMoved(cols, count, failAt, mv) : i >= 1

\* row_count = ecs_vector_count(columns[0].data), taken after the appends
GrowRowCount(cols, count) == RowCount(cols) + count

GrowActivates(cols, count, inprog) ==
    (~inprog) /\ GrowRowCount(cols, count) = count

GrowResolve(cols, count, failAt, mv, isPrimary) ==
    failAt = NoFail /\ GrowReallocd(cols, count, failAt, mv) /\ isPrimary

GrowReturn(cols, count, failAt) ==
    IF failAt # NoFail THEN RowSentinel
    ELSE GrowRowCount(cols, count) - count + 1

Grow(target, count, first_entity, failAt, mv) ==
    LET cols   == TargetColumns(target)
        ncols  == GrowColumns(cols, count, first_entity, failAt)
        sent   == IF failAt = NoFail /\ GrowActivates(cols, count, in_progress)
                  THEN activate_table(frame_systems, 0, TRUE) ELSE <<>>
    IN
    /\ TargetOk(target)
    /\ \A k \in 1..Len(cols) :
          ecs_vector_count(cols[k].data) + count <= TargetRoom(target)
    /\ count > 0 => first_entity + count - 1 \in Entities
    /\ \A k \in 1..RowCount(cols) :
          ~(Entity0(cols)[k] \in first_entity..(first_entity + count - 1))
    /\ failAt \in {NoFail} \cup GrowFailPoints(cols, count)
    /\ \A i \in mv : /\ i <= ColumnCount(cols)
                     /\ (failAt = NoFail \/ i < failAt)
                     /\ cols[i + 1].data.alloc
                     /\ NeedsAlloc(cols[i + 1].data, count)
    /\ IF target = "primary"
       THEN columns' = ncols /\ UNCHANGED stage_columns
       ELSE stage_columns' = ncols /\ UNCHANGED columns
    /\ should_resolve' =
          (should_resolve \/ GrowResolve(cols, count, failAt, mv, target = "primary"))
    /\ last' = [op |-> "grow", target |-> target, arg |-> count,
                ret |-> GrowReturn(cols, count, failAt),
                index_set |-> NoRow, moved |-> GrowMoved(cols, count, failAt, mv),
                sent |-> sent]
    /\ failures' = IF failAt = NoFail THEN failures ELSE failures + 1
    /\ UNCHANGED <<type, frame_systems, in_progress>>
    /\ UNCHANGED qvars
    /\ UNCHANGED evars
    /\ notes' = Observe(notes, last', RowCount(columns) = 0, frame_systems')

(***************************************************************************)
(* ecs_table_delete(world, table, index): index is 1-based, a negative     *)
(* index is taken as its absolute value. Always on the primary columns.    *)
(***************************************************************************)
Abs(i) == IF i < 0 THEN 0 - i ELSE i

\* the 0-based row: index *= -1 when negative, then index--
DeleteRow(index) == Abs(index) - 1

\* a slip: the last row is dropped without being moved onto the deleted row
DeleteColumns_NoMove(cols, index) ==
    [k \in 1..Len(cols) |->
        IF k = 1 \/ cols[k].size # 0
        THEN [cols[k] EXCEPT !.data = ecs_vector_remove_last(@)]
        ELSE cols[k]]

DeleteColumns(cols, index) ==
    LET row   == DeleteRow(index)
        count == RowCount(cols) - 1
    IN
    IF row # count
    THEN [k \in 1..Len(cols) |->
            IF k = 1
            THEN [cols[k] EXCEPT !.data =
                    ecs_vector_remove_last(
                        [cols[1].data EXCEPT !.data =
                            [Entity0(cols) EXCEPT ![row + 1] = Entity0(cols)[count + 1]]])]
            ELSE IF cols[k].size # 0
            THEN [cols[k] EXCEPT !.data = ecs_vector_remove_index(@, row)]
            ELSE cols[k]]
    ELSE [k \in 1..Len(cols) |->
            IF k = 1 \/ cols[k].size # 0
            THEN [cols[k] EXCEPT !.data = ecs_vector_remove_last(@)]
            ELSE cols[k]]

\* the write to the world's entity index the call makes:
\* ecs_map_set64(entity_index, to_move, row{type_id, index + 1})
DeleteEntityIndex(cols, index) ==
    LET row   == DeleteRow(index)
        count == RowCount(cols) - 1
    IN
    IF row # count
    THEN [entity |-> Entity0(cols)[count + 1],
          type_id |-> TableTypeId, index |-> row + 1]
    ELSE NoRow

DeleteDeactivates(cols, inprog) == (~inprog) /\ RowCount(cols) - 1 = 0

Delete(index) ==
    /\ RowCount(columns) # 0
    /\ Abs(index) \in 1..RowCount(columns)
    /\ columns' = DeleteColumns(columns, index)
    /\ last' = [op |-> "delete", target |-> "primary", arg |-> index,
                ret |-> 0,
                index_set |-> DeleteEntityIndex(columns, index), moved |-> {},
                sent |-> IF DeleteDeactivates(columns, in_progress)
                         THEN activate_table(frame_systems, 0, FALSE) ELSE <<>>]
    /\ UNCHANGED <<type, frame_systems, stage_columns, in_progress, should_resolve,
                   failures>>
    /\ UNCHANGED qvars
    /\ UNCHANGED evars
    /\ notes' = Observe(notes, last', RowCount(columns) = 0, frame_systems')

(***************************************************************************)
(* ecs_table_register_system(world, table, system). ok: the append to      *)
(* frame_systems got its memory.                                           *)
(***************************************************************************)
RegisterSystem(system, ok) ==
    /\ Len(frame_systems) < MaxSystems
    /\ frame_systems' = IF ok THEN Append(frame_systems, system) ELSE frame_systems
    /\ last' = [op |-> "register", target |-> "primary", arg |-> system,
                ret |-> 0,
                index_set |-> NoRow, moved |-> {},
                sent |-> IF RowCount(columns) # 0
                         THEN activate_table(frame_systems, system, TRUE) ELSE <<>>]
    /\ failures' = IF ok THEN failures ELSE failures + 1
    /\ UNCHANGED <<type, columns, stage_columns, in_progress, should_resolve>>
    /\ UNCHANGED qvars
    /\ UNCHANGED evars
    /\ notes' = Observe(notes, last', RowCount(columns) = 0, frame_systems')

(***************************************************************************)
(* ecs_table_get_columns(world, stage, table): the primary columns when    *)
(* the world is not in progress, else the stage's shadow columns, created  *)
(* on first access.                                                        *)
(***************************************************************************)
GetColumnsTarget(inprog) == IF inprog THEN "stage" ELSE "primary"

\* a slip: the shadow columns are made anew on every call
GetColumnsStage_AlwaysNew(inprog, staged, t) ==
    IF inprog THEN new_columns(t) ELSE staged

GetColumnsStage(inprog, staged, t) ==
    IF inprog /\ staged = <<>> THEN new_columns(t) ELSE staged

GetColumns ==
    /\ stage_columns' = GetColumnsStage(in_progress, stage_columns, type)
    /\ last' = [op |-> "get_columns", target |-> GetColumnsTarget(in_progress),
                arg |-> 0, ret |-> 0,
                index_set |-> NoRow, moved |-> {}, sent |-> <<>>]
    /\ UNCHANGED <<type, columns, frame_systems, in_progress, should_resolve, failures>>
    /\ UNCHANGED qvars
    /\ UNCHANGED evars
    /\ notes' = Observe(notes, last', RowCount(columns) = 0, frame_systems')

(***************************************************************************)
(* The world enters and leaves the deferred-mutation phase. Leaving it     *)
(* drops the stage's shadow columns (the merge itself is outside the core) *)
(***************************************************************************)
BeginProgress ==
    /\ ~in_progress
    /\ in_progress' = TRUE
    /\ last' = [op |-> "begin", target |-> "primary", arg |-> 0, ret |-> 0, index_set |-> NoRow, moved |-> {}, sent |-> <<>>]
    /\ UNCHANGED <<type, columns, frame_systems, stage_columns, should_resolve, failures>>
    /\ UNCHANGED qvars
    /\ UNCHANGED evars
    /\ notes' = Observe(notes, last', RowCount(columns) = 0, frame_systems')

EndProgress ==
    /\ in_progress
    /\ in_progress' = FALSE
    /\ stage_columns' = <<>>
    /\ last' = [op |-> "end", target |-> "primary", arg |-> 0, ret |-> 0, index_set |-> NoRow, moved |-> {}, sent |-> <<>>]
    /\ UNCHANGED <<type, columns, frame_systems, should_resolve,
                   failures>>
    /\ UNCHANGED qvars
    /\ UNCHANGED evars
    /\ notes' = Observe(notes, last', RowCount(columns) = 0, frame_systems')

(***************************************************************************)
(* ecs_table_eval_columns: the prefab flags of a table and its entry in    *)
(* world->prefab_index.  `counted` lists the ids that reached the          *)
(* MORE_THAN_ONE_PREFAB test, in walk order.                               *)
(***************************************************************************)
EcsTableIsPrefab == "IsPrefab"
EcsTableHasPrefab == "HasPrefab"

\* world->last_handle: the highest id handed out
last_handle == FlagF2

\* ecs_table_init, before the type is evaluated
NoEval ==
    [flags |-> {}, prefab_index |-> 0, prefab_set |-> FALSE,
     exclude_prefab |-> 0, counted |-> <<>>, error |-> "none",
     evaluated |-> FALSE]

\* table->flags after the test for the prefab marker
MarkerFlags(flags, c) ==
    IF c = EEcsPrefab THEN flags \cup {EcsTableIsPrefab} ELSE flags

\* the branch of an id that is not a component
eval_entity(st, c, flags) ==
    IF c # st.exclude_prefab /\ IsPrefabEntity(c)
    THEN IF st.prefab_set
         THEN [st EXCEPT !.flags = flags,
                         !.counted = Append(st.counted, c),
                         !.error = "ECS_MORE_THAN_ONE_PREFAB"]
         ELSE [st EXCEPT !.flags = flags \cup {EcsTableHasPrefab},
                         !.counted = Append(st.counted, c),
                         !.prefab_set = TRUE,
                         !.prefab_index = c]
    ELSE IF HasPrefabParent(c)
    THEN IF PrefabParentOf(c) = 0
         THEN [st EXCEPT !.flags = flags, !.exclude_prefab = 0,
                         !.error = "ECS_INTERNAL_ERROR"]
         ELSE [st EXCEPT !.flags = flags,
                         !.exclude_prefab = PrefabParentOf(c)]
    ELSE [st EXCEPT !.flags = flags]

\* one iteration of the walk; nothing runs after a fatal assertion
eval_column(st, c) ==
    IF st.error # "none" THEN st
    ELSE IF c > last_handle THEN [st EXCEPT !.error = "ECS_INVALID_HANDLE"]
    ELSE IF IsComponent(c) THEN [st EXCEPT !.flags = MarkerFlags(st.flags, c)]
    ELSE eval_entity(st, c, MarkerFlags(st.flags, c))

\* the walk, from the last element of the type to the first
RECURSIVE eval_columns_from(_, _, _)
eval_columns_from(t, i, st) ==
    IF i = 0 THEN st
    ELSE eval_columns_from(t, i - 1, eval_column(st, t[i]))

ecs_table_eval_columns(t) ==
    [eval_columns_from(t, Len(t), NoEval) EXCEPT !.evaluated = TRUE]

(***************************************************************************)
(* The table store: ecs_table_init on one of the types, then any calls     *)
(***************************************************************************)
QIdle ==
    /\ qworld = <<>>
    /\ queries = <<>>
    /\ aborted = FALSE
    /\ offers = <<>>
    /\ qlast = [op |-> "none", table |-> 0]
    /\ freed = {}

Init ==
    /\ type \in StoreTypes
    /\ columns = new_columns(type)
    /\ eval = ecs_table_eval_columns(type)
    /\ frame_systems = <<>>
    /\ stage_columns = <<>>
    /\ in_progress = FALSE
    /\ notes = Unobserved
    /\ failures = 0
    /\ should_resolve = FALSE
    /\ last = [op |-> "init", target |-> "primary", arg |-> 0, ret |-> 0, index_set |-> NoRow, moved |-> {}, sent |-> <<>>]
    /\ QIdle

\* the columns whose vector an insert may find moved by realloc
InsertMovable(cols, failAt) ==
    { i \in 0..ColumnCount(cols) :
        /\ InsertTouches(cols, i)
        /\ (failAt = NoFail \/ i < failAt)
        /\ cols[i + 1].data.alloc
        /\ NeedsAlloc(cols[i + 1].data, 1) }

GrowMovable(cols, count, failAt) ==
    { i \in 0..ColumnCount(cols) :
        /\ (failAt = NoFail \/ i < failAt)
        /\ cols[i + 1].data.alloc
        /\ NeedsAlloc(cols[i + 1].data, count) }

\* the environment fails at most MaxFail allocations
FailPoints(points) == IF failures < MaxFail THEN {NoFail} \cup points ELSE {NoFail}

InsertPrimary ==
    \E entity \in Entities, failAt \in FailPoints(InsertFailPoints(columns)) :
      \E mv \in SUBSET InsertMovable(columns, failAt) :
        Insert("primary", entity, failAt, mv)

GrowPrimary ==
    \E count \in 0..MaxGrow, first_entity \in Entities,
       failAt \in FailPoints(0..ColumnCount(columns)) :
      \E mv \in SUBSET GrowMovable(columns, count, failAt) :
        Grow("primary", count, first_entity, failAt, mv)

DeleteAny ==
    \E index \in (1..MaxRows) \cup { 0 - i : i \in 1..MaxRows } : Delete(index)

RegisterAny ==
    \E ok \in {TRUE} \cup {FALSE : k \in 1..(MaxFail - failures)} :
        RegisterSystem(Len(frame_systems) + 1, ok)

\* the calls made while the world is not in progress
Next ==
    \/ InsertPrimary
    \/ GrowPrimary
    \/ DeleteAny
    \/ RegisterAny

Spec == Init /\ [][Next]_vars

(***************************************************************************)
(* Claims about the table store                                            *)
(***************************************************************************)
At(seq, i) == IF i \in 1..Len(seq) THEN seq[i] ELSE 0

\* the columns the last call worked on, before and after it
LastColumns == IF last.target = "stage" THEN stage_columns ELSE columns

SizedColumnsEqual(cols) ==
    \A k \in 2..Len(cols) :
        cols[k].size # 0 => ecs_vector_count(cols[k].data) = RowCount(cols)

\* C1: in every state reached by insert, grow and delete on the primary
\* columns, every component column with non-zero element size holds as many
\* elements as column 0.
C1_SizedColumnsEqual == SizedColumnsEqual(columns)

\* C1, as far as the code keeps it: it holds until an allocation has failed.
C1_UntilFailure == failures = 0 => SizedColumnsEqual(columns)

\* C2: after ecs_table_delete(r) on n >= 1 rows, column 0 has n - 1 rows and
\* either the table is empty or position r holds the entity that was last
\* and the entity index maps that entity to (type_id, r).
C2_DeleteSwaps ==
    [][ last'.op = "delete" =>
          LET n == RowCount(columns)
              r == Abs(last'.arg)
          IN /\ RowCount(columns') = n - 1
             /\ \/ RowCount(columns') = 0
                \/ /\ At(Entity0(columns'), r) = Entity0(columns)[n]
                   /\ last'.index_set = [entity |-> Entity0(columns)[n],
                                         type_id |-> TableTypeId, index |-> r]
      ]_vars

\* C2 amended: after ecs_table_delete(r) on n >= 1 rows, column 0 has n - 1
\* rows and either r was the last row (r = n), or position r holds the entity
\* that was last and the entity index maps that entity to (type_id, r).
C2_DeleteSwapsUnlessLast ==
    [][ last'.op = "delete" =>
          LET n == RowCount(columns)
              r == Abs(last'.arg)
          IN /\ RowCount(columns') = n - 1
             /\ \/ r = n
                \/ /\ At(Entity0(columns'), r) = Entity0(columns)[n]
                   /\ last'.index_set = [entity |-> Entity0(columns)[n],
                                         type_id |-> TableTypeId, index |-> r]
      ]_vars

\* a delete of a row that is not the last one has happened
C2_Witness ==
    /\ last.op = "delete"
    /\ last.index_set # NoRow
    /\ RowCount(columns) >= 1
    /\ Abs(last.arg) <= RowCount(columns)

\* C3: after a successful ecs_table_insert(e) returning r, column 0 holds e at
\* position r - 1 (0-based), r is the new row count and the entity ids of the
\* rows that existed before are unchanged.
C3_InsertAppends ==
    [][ (last'.op = "insert" /\ last'.ret # RowSentinel) =>
          LET before == IF last'.target = "stage" THEN stage_columns ELSE columns
              after  == IF last'.target = "stage" THEN stage_columns' ELSE columns'
              r      == last'.ret
          IN /\ r = RowCount(after)
             /\ At(Entity0(after), r) = last'.arg
             /\ RowCount(after) = RowCount(before) + 1
             /\ \A k \in 1..RowCount(before) : Entity0(after)[k] = Entity0(before)[k]
      ]_vars

\* a successful insert into a table that already had a row
C3_Witness ==
    /\ last.op = "insert"
    /\ last.ret # RowSentinel
    /\ last.ret >= 2
    /\ Entity0(LastColumns)[last.ret] = last.arg

\* what ecs_table_count says about the table
Empty(cols) == RowCount(cols) = 0

\* C4: an insert or delete made while the world is not in progress notifies
\* the registered systems with 'activate' when the table goes from empty to
\* non-empty, with 'deactivate' when it goes from non-empty to empty, and
\* sends nothing otherwise.
C4_Expected(before, after, systems) ==
    IF Empty(before) /\ ~Empty(after) THEN activate_table(systems, 0, TRUE)
    ELSE IF ~Empty(before) /\ Empty(after) THEN activate_table(systems, 0, FALSE)
    ELSE <<>>

C4_ActivationFollowsEmptiness ==
    [][ (last'.op \in {"insert", "delete"} /\ last'.target = "primary"
            /\ ~in_progress) =>
          last'.sent = C4_Expected(columns, columns', frame_systems)
      ]_vars

\* C4, as far as the code keeps it: the calls in which no allocation fails
C4_UnlessFailure ==
    [][ (last'.op \in {"insert", "delete"} /\ last'.target = "primary"
            /\ ~in_progress /\ last'.ret # RowSentinel) =>
          last'.sent = C4_Expected(columns, columns', frame_systems)
      ]_vars

\* C5: if an insert or grow on the primary columns reallocated any column
\* vector (column 0 included), world.should_resolve is true on return.
C5_ReallocRaisesFlag ==
    (last.op \in {"insert", "grow"} /\ last.target = "primary"
        /\ last.moved # {}) => should_resolve

\* C5, as far as the code keeps it: a call that returns a row and found the
\* vector of a column i >= 1 at another address
C5_DataColumnRealloc ==
    (last.op \in {"insert", "grow"} /\ last.target = "primary"
        /\ last.ret # RowSentinel /\ (\E i \in last.moved : i >= 1))
    => should_resolve

(***************************************************************************)
(* The query matcher (src/src/query.c).                                    *)
(*                                                                         *)
(* The world is fixed: the components CompA (4 bytes), CompB (8 bytes) and *)
(* TagT (no data), the parents, the prefab, the source entity and the      *)
(* system.  Tables are created from TableTypes, each type at most once.    *)
(***************************************************************************)
MaxTables == 2
MaxReoffer == 1

\* the types tables are created for, each sorted by id
TableTypes == <<
    <<CompA>>,
    <<CompA, CompB, TagT>>,
    <<CompB, PrefabPF>>,
    <<CompA, PrefabPF>>,
    <<CompB, ChildOf(ParentP)>>,
    <<CompA, ChildOf(ParentP2)>>,
    <<EEcsDisabled, CompA>>,
    <<EEcsPrefab, CompA>>,
    <<TagT>> >>

Range(seq) == { seq[i] : i \in 1..Len(seq) }

\* ecs_get_ptr(world, component, EcsComponent): null, or the size it holds
HasData(c) == IsComponent(c) /\ ComponentSize(c) # 0

\* the prefabs a type instantiates, last one first
PrefabsOf(t) == { t[i] : i \in { j \in 1..Len(t) : IsPrefabEntity(t[j]) } }

\* the largest id of a set of ids, 0 when there is none
MaxOf(ids) == IF ids = {} THEN 0 ELSE CHOOSE p \in ids : \A o \in ids : o <= p

\* the smallest of a set of positions, 0 when there is none
MinOf(ids) == IF ids = {} THEN 0 ELSE CHOOSE p \in ids : \A o \in ids : p <= o

FirstOf(a, b) == IF a # 0 THEN a ELSE b

RECURSIVE ecs_find_entity_in_prefabs(_, _, _, _)
\* the prefab among ps that has the component, else what their prefabs give
FindInPrefabs(entity, ps, component) ==
    FirstOf(MaxOf({ p \in ps : TypeHas(EntityType(p), component) }),
            MaxOf({ ecs_find_entity_in_prefabs(p, EntityType(p), component, entity) :
                      p \in ps }))

ecs_find_entity_in_prefabs(entity, t, component, previous) ==
    IF component = 0 THEN 0
    ELSE FindInPrefabs(entity, PrefabsOf(t) \ {previous}, component)

ecs_type_has_entity_intern(t, entity, match_prefab) ==
    \/ TypeHas(t, entity)
    \/ match_prefab /\ ecs_find_entity_in_prefabs(0, t, entity, 0) # 0

ecs_type_has_entity(t, entity) == ecs_type_has_entity_intern(t, entity, TRUE)

\* 0-based position of the id in the type, or -1
ecs_type_index_of(t, component) ==
    MinOf({ i \in 1..Len(t) : t[i] = component }) - 1

\* an id of type_2 is in type_1, or in its prefabs when match_prefab
ContainsId(type_1, e2, match_prefab) ==
    \/ TypeHas(type_1, e2)
    \/ /\ match_prefab
       /\ e2 \notin {EEcsPrefab, EEcsDisabled}
       /\ ecs_find_entity_in_prefabs(0, type_1, e2, 0) # 0

\* the result for the positions of type_2 that were found
ContainsResult(type_2, found, match_all) ==
    IF type_2 = <<>> THEN 0
    ELSE IF match_all
    THEN IF found = 1..Len(type_2) THEN type_2[Len(type_2)] ELSE 0
    ELSE IF found = {} THEN 0
    ELSE type_2[MinOf(found)]

\* type_1 holds all (match_all) or one of the ids of type_2, looking through
\* the prefabs of type_1 when match_prefab: the id found, or 0
ecs_type_contains(type_1, type_2, match_all, match_prefab) ==
    ContainsResult(type_2,
        { i \in 1..Len(type_2) : ContainsId(type_1, type_2[i], match_prefab) },
        match_all)

\* ecs_type_add_intern: the type with the id added, kept sorted
RECURSIVE SortedSeq(_)
SortedSeq(ids) ==
    IF ids = {} THEN <<>>
    ELSE <<MinOf(ids)>> \o SortedSeq(ids \ {MinOf(ids)})

ecs_type_add_intern(t, id) == SortedSeq(Range(t) \cup {id})

\* the parents (CHILDOF entries) of a type, in type order
Parents(t) == SelectSeq(t, HasChildOf)

\* the entity at a position of the parents, 0 for position 0
ParentAt(ps, i) == IF i = 0 THEN 0 ELSE EntityMask(ps[i])

\* ecs_components_contains_component(world, type, component, ECS_CHILDOF, &e):
\* the first parent whose table has the component, or 0
ecs_components_contains_component(table_type, component) ==
    ParentAt(Parents(table_type),
        MinOf({ i \in 1..Len(Parents(table_type)) :
                  /\ component # 0
                  /\ ecs_type_has_entity_intern(
                         EntityType(EntityMask(Parents(table_type)[i])),
                         component, TRUE) }))

\* what components_contains returns for the parent at a position
ComponentsAt(ps, i, t, match_all) ==
    IF i = 0 THEN [component |-> 0, entity |-> 0]
    ELSE [component |-> ecs_type_contains(EntityType(EntityMask(ps[i])), t,
                                          match_all, TRUE),
          entity |-> EntityMask(ps[i])]

\* components_contains: the first parent whose table contains the type,
\* with the component ecs_type_contains found there
components_contains(table_type, t, match_all) ==
    ComponentsAt(Parents(table_type),
        MinOf({ i \in 1..Len(Parents(table_type)) :
                  ecs_type_contains(EntityType(EntityMask(Parents(table_type)[i])),
                                    t, match_all, TRUE) # 0 }),
        t, match_all)

\* the type the component is looked up in
ForComponentType(entity, t) == IF entity # 0 THEN EntityType(entity) ELSE t

ecs_get_entity_for_component(entity, t, component) ==
    IF TypeHas(ForComponentType(entity, t), component) THEN entity
    ELSE ecs_find_entity_in_prefabs(entity, ForComponentType(entity, t),
                                    component, 0)

(***************************************************************************)
(* Signatures                                                              *)
(***************************************************************************)
EcsFromSelf == "EcsFromSelf"
EcsFromOwned == "EcsFromOwned"
EcsFromShared == "EcsFromShared"
EcsFromEntity == "EcsFromEntity"
EcsFromContainer == "EcsFromContainer"
EcsCascade == "EcsCascade"
EcsFromSystem == "EcsFromSystem"
EcsFromEmpty == "EcsFromEmpty"
EcsOperAnd == "EcsOperAnd"
EcsOperOr == "EcsOperOr"
EcsOperNot == "EcsOperNot"
EcsOperOptional == "EcsOperOptional"

FromKinds == {EcsFromSelf, EcsFromOwned, EcsFromShared, EcsFromEntity,
              EcsFromContainer, EcsCascade, EcsFromSystem, EcsFromEmpty}

\* a signature column on one component; an Entity column reads from E
Col(op, from, component) ==
    [op |-> op, from |-> from, component |-> component, type |-> <<>>,
     source |-> IF from = EcsFromEntity THEN SourceE ELSE 0]

\* an Or column over the type {A, B}
OrCol(from) ==
    [op |-> EcsOperOr, from |-> from, component |-> 0, type |-> <<CompA, CompB>>,
     source |-> IF from = EcsFromEntity THEN SourceE ELSE 0]

Sig(cols) == [columns |-> cols, match_disabled |-> FALSE, match_prefab |-> FALSE,
              cascade_by |-> 0, has_refs |-> FALSE]

SingleColumns ==
    { Col(EcsOperAnd, f, c) : f \in FromKinds, c \in {CompA, TagT} }
    \cup { Col(EcsOperOptional, f, CompA) :
             f \in {EcsFromSelf, EcsFromOwned, EcsFromShared, EcsFromEntity,
                    EcsFromContainer, EcsCascade} }
    \cup { OrCol(f) :
             f \in {EcsFromSelf, EcsFromOwned, EcsFromShared, EcsFromContainer} }
    \cup { Col(EcsOperNot, f, CompA) :
             f \in {EcsFromSelf, EcsFromOwned, EcsFromShared, EcsFromContainer,
                    EcsFromEmpty} }
    \cup { Col(EcsOperNot, EcsFromEntity, c) : c \in {CompA, CompB} }

ColumnPairs ==
    { <<Col(EcsOperAnd, EcsFromContainer, CompA), Col(EcsOperAnd, EcsFromSelf, CompB)>>,
      <<Col(EcsOperAnd, EcsFromSelf, CompA), Col(EcsOperAnd, EcsFromSelf, CompB)>>,
      <<Col(EcsOperAnd, EcsFromSelf, CompA), Col(EcsOperOptional, EcsFromSelf, CompB)>>,
      <<Col(EcsOperAnd, EcsFromOwned, CompA), Col(EcsOperAnd, EcsFromOwned, CompB)>>,
      <<Col(EcsOperAnd, EcsFromEntity, CompA), Col(EcsOperAnd, EcsFromContainer, CompA)>>,
      <<Col(EcsOperAnd, EcsFromSelf, CompB), Col(EcsOperNot, EcsFromEmpty, CompA)>>,
      <<Col(EcsOperAnd, EcsFromSelf, CompB), Col(EcsOperNot, EcsFromSelf, CompA)>>,
      <<Col(EcsOperAnd, EcsFromSelf, TagT), Col(EcsOperAnd, EcsFromEntity, TagT)>>,
      <<Col(EcsOperAnd, EcsFromShared, CompA), Col(EcsOperAnd, EcsFromShared, CompB)>> }

Signatures ==
    { Sig(<<c>>) : c \in SingleColumns }
    \cup { Sig(p) : p \in ColumnPairs }
    \cup { [Sig(<<Col(EcsOperAnd, EcsFromSelf, CompA)>>) EXCEPT !.match_disabled = TRUE],
           [Sig(<<Col(EcsOperAnd, EcsFromOwned, CompA)>>) EXCEPT !.match_prefab = TRUE] }

\* ecs_sparse_add(world->queries) with result->sig = *sig
NewQueryRecord(sig) ==
    [sig |-> sig, system |-> SystemS,
     and_from_self |-> <<>>, and_from_owned |-> <<>>, and_from_shared |-> <<>>,
     and_from_system |-> <<>>,
     not_from_self |-> <<>>, not_from_owned |-> <<>>, not_from_shared |-> <<>>,
     not_from_component |-> <<>>,
     tables |-> <<>>]

postprocess_column(query, i) ==
    LET elem == query.sig.columns[i]
        from == elem.from
        op == elem.op
        c == elem.component
    IN  IF from = EcsFromEntity THEN query
        ELSE IF from = EcsCascade THEN [query EXCEPT !.sig.cascade_by = i]
        ELSE IF op = EcsOperOr THEN query
        ELSE IF op = EcsOperNot
        THEN IF from = EcsFromSelf
             THEN [query EXCEPT !.not_from_self = ecs_type_add_intern(@, c)]
             ELSE IF from = EcsFromOwned
             THEN [query EXCEPT !.not_from_owned = ecs_type_add_intern(@, c)]
             ELSE IF from = EcsFromShared
             THEN [query EXCEPT !.not_from_shared = ecs_type_add_intern(@, c)]
             ELSE [query EXCEPT !.not_from_component = ecs_type_add_intern(@, c)]
        ELSE IF op = EcsOperAnd
        THEN IF from = EcsFromSelf
             THEN [query EXCEPT !.and_from_self = ecs_type_add_intern(@, c)]
             ELSE IF from = EcsFromOwned
             THEN [query EXCEPT !.and_from_owned = ecs_type_add_intern(@, c)]
             ELSE IF from = EcsFromShared
             THEN [query EXCEPT !.and_from_shared = ecs_type_add_intern(@, c)]
             ELSE IF from = EcsFromSystem
             THEN [query EXCEPT !.and_from_system = ecs_type_add_intern(@, c)]
             ELSE query
        ELSE query

RECURSIVE postprocess_from(_, _)
postprocess_from(query, i) ==
    IF i > Len(query.sig.columns) THEN query
    ELSE postprocess_from(postprocess_column(query, i), i + 1)

postprocess(query) == postprocess_from(query, 1)

(***************************************************************************)
(* match_table                                                             *)
(***************************************************************************)
\* in place of the gating: only the Disabled marker is looked for
MatchGating_PrefabUngated(sig, table_type) ==
    ~(~sig.match_disabled
      /\ ecs_type_has_entity_intern(table_type, EEcsDisabled, FALSE))

MatchGating(sig, table_type) ==
    /\ ~(~sig.match_disabled
         /\ ecs_type_has_entity_intern(table_type, EEcsDisabled, FALSE))
    /\ ~(~sig.match_prefab
         /\ ecs_type_has_entity_intern(table_type, EEcsPrefab, FALSE))

MatchSelf(query, table_type) ==
    ~(query.and_from_self # <<>>
      /\ ecs_type_contains(table_type, query.and_from_self, TRUE, TRUE) = 0)

\* in place of the owned test: the prefabs are searched too
MatchOwned_ThroughPrefabs(query, table_type) ==
    ~(query.and_from_owned # <<>>
      /\ ecs_type_contains(table_type, query.and_from_owned, TRUE, TRUE) = 0)

MatchOwned(query, table_type) ==
    ~(query.and_from_owned # <<>>
      /\ ecs_type_contains(table_type, query.and_from_owned, TRUE, FALSE) = 0)

MatchShared(query, table_type) ==
    IF /\ query.and_from_shared # <<>>
       /\ ecs_type_contains(table_type, query.and_from_shared, TRUE, FALSE) # 0
    THEN FALSE
    ELSE ~(/\ query.and_from_shared # <<>>
           /\ ecs_type_contains(table_type, query.and_from_shared, TRUE, TRUE) = 0)

\* in place of the column test: And Container is taken as already validated
MatchColumn_ContainerUntested(elem, table_type) ==
    IF elem.op = EcsOperAnd
    THEN IF elem.from = EcsFromEntity
         THEN ecs_type_has_entity(EntityType(elem.source), elem.component)
         ELSE TRUE
    ELSE IF elem.op = EcsOperOr
    THEN IF elem.from = EcsFromSelf
         THEN ecs_type_contains(table_type, elem.type, FALSE, TRUE) # 0
         ELSE IF elem.from = EcsFromContainer
         THEN components_contains(table_type, elem.type, FALSE).component # 0
         ELSE TRUE
    ELSE IF elem.op = EcsOperNot
    THEN IF elem.from = EcsFromEntity
         THEN ~ecs_type_has_entity(EntityType(elem.source), elem.component)
         ELSE TRUE
    ELSE TRUE

MatchColumn(elem, table_type) ==
    IF elem.op = EcsOperAnd
    THEN IF elem.from = EcsFromContainer
         THEN ecs_components_contains_component(table_type, elem.component) # 0
         ELSE IF elem.from = EcsFromEntity
         THEN ecs_type_has_entity(EntityType(elem.source), elem.component)
         ELSE TRUE
    ELSE IF elem.op = EcsOperOr
    THEN IF elem.from = EcsFromSelf
         THEN ecs_type_contains(table_type, elem.type, FALSE, TRUE) # 0
         ELSE IF elem.from = EcsFromContainer
         THEN components_contains(table_type, elem.type, FALSE).component # 0
         ELSE TRUE
    ELSE IF elem.op = EcsOperNot
    THEN IF elem.from = EcsFromEntity
         THEN ~ecs_type_has_entity(EntityType(elem.source), elem.component)
         ELSE TRUE
    ELSE TRUE

MatchNot(query, table_type) ==
    /\ ~(query.not_from_self # <<>>
         /\ ecs_type_contains(table_type, query.not_from_self, FALSE, TRUE) # 0)
    /\ ~(query.not_from_owned # <<>>
         /\ ecs_type_contains(table_type, query.not_from_owned, FALSE, FALSE) # 0)
    /\ ~(/\ query.not_from_shared # <<>>
         /\ ecs_type_contains(table_type, query.not_from_shared, FALSE, FALSE) = 0
         /\ ecs_type_contains(table_type, query.not_from_shared, FALSE, TRUE) # 0)
    /\ ~(query.not_from_component # <<>>
         /\ components_contains(table_type, query.not_from_component, FALSE).component # 0)

MatchType(query, table_type) ==
    /\ MatchGating(query.sig, table_type)
    /\ MatchSelf(query, table_type)
    /\ MatchOwned(query, table_type)
    /\ MatchShared(query, table_type)
    /\ \A i \in 1..Len(query.sig.columns) :
           MatchColumn(query.sig.columns[i], table_type)
    /\ MatchNot(query, table_type)

match_table(table, query) == MatchType(query, TableTypes[table])

(***************************************************************************)
(* add_table: ecs_os_malloc does not clear the block, so a slot that is    *)
(* never assigned keeps whatever the block held: one of Garbage.           *)
(***************************************************************************)
Garbage == {0 - 1, 0, 99}

\* the component and the entity a column reads from in this table
ColumnComponent(query, elem, table_type) ==
    IF elem.from \in {EcsFromSelf, EcsFromEntity, EcsFromOwned, EcsFromShared}
    THEN IF elem.op \in {EcsOperAnd, EcsOperOptional} THEN elem.component
         ELSE IF elem.op = EcsOperOr
         THEN ecs_type_contains(table_type, elem.type, FALSE, TRUE)
         ELSE 0
    ELSE IF elem.from = EcsFromEmpty THEN elem.component
    ELSE IF elem.from \in {EcsFromContainer, EcsCascade}
    THEN IF elem.op \in {EcsOperAnd, EcsOperOptional} THEN elem.component
         ELSE IF elem.op = EcsOperOr
         THEN components_contains(table_type, elem.type, FALSE).component
         ELSE 0
    ELSE IF elem.op = EcsOperAnd THEN elem.component ELSE 0

ColumnEntity(query, elem, table_type) ==
    IF elem.from = EcsFromEntity THEN elem.source
    ELSE IF elem.from \in {EcsFromContainer, EcsCascade}
    THEN IF elem.op \in {EcsOperAnd, EcsOperOptional}
         THEN ecs_components_contains_component(table_type, elem.component)
         ELSE IF elem.op = EcsOperOr
         THEN components_contains(table_type, elem.type, FALSE).entity
         ELSE 0
    ELSE IF elem.from = EcsFromSystem THEN query.system
    ELSE 0

\* a slip: the 0-based index in the type is recorded as the slot
ColumnOffset_ZeroBased(elem, table_type, entity, component) ==
    IF elem.from = EcsFromEmpty THEN {0}
    ELSE IF entity = 0 /\ component # 0
    THEN IF ~TypeHas(table_type, component) THEN {0 - 1}
         ELSE IF ~HasData(component) THEN {0}
         ELSE {ecs_type_index_of(table_type, component)}
    ELSE Garbage

\* the slot after the offset lookup (lines 126-184): every value it can hold;
\* a slot no branch assigns keeps what the malloc'd block held
ColumnOffset(elem, table_type, entity, component) ==
    IF elem.from = EcsFromEmpty THEN {0}
    ELSE IF entity = 0 /\ component # 0
    THEN IF ~TypeHas(table_type, component) THEN {0 - 1}
         ELSE IF ~HasData(component) THEN {0}
         ELSE {ecs_type_index_of(table_type, component) + 1}
    ELSE Garbage

\* the slot after the Optional test (lines 186-193)
ColumnOptional(elem, table_type, component, slots) ==
    IF /\ elem.op = EcsOperOptional
       /\ ~ecs_type_has_entity_intern(table_type, component, TRUE)
    THEN {0}
    ELSE slots

\* a slip: only a column with an entity is resolved as a reference
IsReference_EntityOnly(elem, entity, component, slot) ==
    /\ (entity # 0 \/ elem.from = EcsCascade)
    /\ IsComponent(component)
    /\ ComponentSize(component) # 0

\* the column has a reference to resolve (lines 213-218)
IsReference(elem, entity, component, slot) ==
    /\ (entity # 0 \/ slot = 0 - 1 \/ elem.from = EcsCascade)
    /\ IsComponent(component)
    /\ ComponentSize(component) # 0

\* the entity the reference is on (lines 223-235)
ReferenceEntity(elem, table_type, entity, component) ==
    IF elem.from \in {EcsFromEntity, EcsCascade} THEN entity
    ELSE ecs_get_entity_for_component(entity, table_type, component)

\* the record after the reference was appended, or the ecs_assert on e failed
AddReference(elem, rec, e, component) ==
    IF e = 0 /\ elem.from \notin {EcsFromEntity, EcsCascade}
    THEN [rec EXCEPT !.abort = TRUE]
    ELSE [rec EXCEPT
            !.references = Append(@, [entity |-> e, component |-> component]),
            !.columns = Append(@, 0 - (Len(rec.references) + 1)),
            !.components = Append(@, component),
            !.has_refs = TRUE]

\* the reference branch (lines 213-261) and the store of the component
ColumnReference(elem, table_type, rec, entity, component, slot) ==
    IF IsReference(elem, entity, component, slot)
    THEN AddReference(elem, rec,
             ReferenceEntity(elem, table_type, entity, component), component)
    ELSE [rec EXCEPT
            !.columns = Append(@, slot),
            !.components = Append(@, component)]

\* the plan of one column, given the entity and component it reads
ColumnPlan(elem, table_type, rec, entity, component) ==
    IF elem.op = EcsOperNot /\ elem.from # EcsFromEmpty
    THEN { [rec EXCEPT !.abort = TRUE] }
    ELSE { ColumnReference(elem, table_type, rec, entity, component, slot) :
             slot \in ColumnOptional(elem, table_type, component,
                          ColumnOffset(elem, table_type, entity, component)) }

\* one pass of the column loop over the record being built: every result
add_table_column(query, table_type, rec, c) ==
    ColumnPlan(query.sig.columns[c], table_type, rec,
               ColumnEntity(query, query.sig.columns[c], table_type),
               ColumnComponent(query, query.sig.columns[c], table_type))

RECURSIVE add_table_from(_, _, _, _)
add_table_from(query, table_type, rec, c) ==
    IF rec.abort \/ c > Len(query.sig.columns) THEN {rec}
    ELSE UNION { add_table_from(query, table_type, r, c + 1) :
                   r \in add_table_column(query, table_type, rec, c) }

\* every result of add_table: the query after it, or an ecs_assert stopped it
add_table(query, table) ==
    { IF rec.abort THEN [query |-> query, abort |-> TRUE]
      ELSE [query |-> [query EXCEPT
                !.tables = Append(@, [table |-> rec.table,
                                      columns |-> rec.columns,
                                      components |-> rec.components,
                                      references |-> rec.references]),
                !.sig.has_refs = @ \/ rec.has_refs],
            abort |-> FALSE] :
      rec \in add_table_from(query, TableTypes[table],
                  [table |-> table, columns |-> <<>>, components |-> <<>>,
                   references |-> <<>>, has_refs |-> FALSE, abort |-> FALSE], 1) }

\* ecs_query_match_table: every result the call can have
ecs_query_match_table(query, table) ==
    IF match_table(table, query)
    THEN add_table(query, table)
    ELSE { [query |-> query, abort |-> FALSE] }

\* match_tables over world->tables from position i on: every result
RECURSIVE match_tables_from(_, _, _)
match_tables_from(world_tables, query, i) ==
    IF i > Len(world_tables) THEN { [query |-> query, abort |-> FALSE] }
    ELSE IF match_table(world_tables[i], query)
    THEN UNION { IF r.abort THEN {r}
                 ELSE match_tables_from(world_tables, r.query, i + 1) :
                 r \in add_table(query, world_tables[i]) }
    ELSE match_tables_from(world_tables, query, i + 1)

\* in place of match_tables: the table list is walked twice
match_tables_Twice(world_tables, query) ==
    match_tables_from(world_tables \o world_tables, query, 1)

match_tables(world_tables, query) == match_tables_from(world_tables, query, 1)

ecs_new_query(world_tables, sig) ==
    match_tables(world_tables, postprocess(NewQueryRecord(sig)))

(***************************************************************************)
(* The calls on the world of tables and queries                            *)
(***************************************************************************)
\* ecs_new_query with one of the signatures
NewQuery(sig) ==
    /\ ~aborted
    /\ queries = <<>>
    /\ \E r \in ecs_new_query(qworld, sig) :
         /\ queries' = <<r.query>>
         /\ aborted' = r.abort
    /\ offers' = [i \in 1..Len(qworld) |-> 1]
    /\ qlast' = [op |-> "new_query", table |-> 0]
    /\ UNCHANGED qworld
    /\ UNCHANGED tvars
    /\ UNCHANGED evars

\* a table is created for a type that has none yet, tables being created in
\* the order of TableTypes; the world offers the new table to the query
CreateTable(table) ==
    /\ ~aborted
    /\ freed = {}
    /\ Len(qworld) < MaxTables
    /\ \A i \in 1..Len(qworld) : qworld[i] < table
    /\ qworld' = Append(qworld, table)
    /\ IF queries = <<>>
       THEN /\ UNCHANGED <<queries, aborted>>
            /\ offers' = Append(offers, 0)
       ELSE /\ \E r \in ecs_query_match_table(queries[1], table) :
                 /\ queries' = <<r.query>>
                 /\ aborted' = r.abort
            /\ offers' = Append(offers, 1)
    /\ qlast' = [op |-> "create_table", table |-> table]
    /\ UNCHANGED tvars
    /\ UNCHANGED evars

RECURSIVE SumSeq(_)
SumSeq(s) == IF s = <<>> THEN 0 ELSE Head(s) + SumSeq(Tail(s))

\* the offers made of a table the query had been offered before
Reoffers == SumSeq(offers) - Len(offers)

\* ecs_query_match_table on a table the query was offered before
MatchTable(i) ==
    /\ ~aborted
    /\ freed = {}
    /\ queries # <<>>
    /\ Reoffers < MaxReoffer
    /\ \E r \in ecs_query_match_table(queries[1], qworld[i]) :
         /\ queries' = <<r.query>>
         /\ aborted' = r.abort
    /\ offers' = [offers EXCEPT ![i] = @ + 1]
    /\ qlast' = [op |-> "match_table", table |-> qworld[i]]
    /\ UNCHANGED qworld
    /\ UNCHANGED tvars
    /\ UNCHANGED evars

\* the allocations a query holds: its signature, the vector of matched
\* tables once a record was added, and per record the two arrays add_table
\* mallocs and the references vector once a reference was added
Allocations(query) ==
    { <<"sig", 0>> }
    \cup { <<"tables", 0>> : r \in 1..Min(1, Len(query.tables)) }
    \cup { <<"columns", r>> : r \in 1..Len(query.tables) }
    \cup { <<"components", r>> : r \in 1..Len(query.tables) }
    \cup { <<"references", r>> :
             r \in { k \in 1..Len(query.tables) : query.tables[k].references # <<>> } }

\* ecs_query_free: what the call releases
ecs_query_free(query) ==
    { <<"sig", 0>> } \cup { <<"tables", 0>> : r \in 1..Min(1, Len(query.tables)) }

\* ecs_query_free on the query, as the last call made on it
QueryFree ==
    /\ ~aborted
    /\ queries # <<>>
    /\ freed = {}
    /\ freed' = ecs_query_free(queries[1])
    /\ qlast' = [op |-> "query_free", table |-> 0]
    /\ UNCHANGED <<qworld, queries, aborted, offers, eval>>
    /\ UNCHANGED tvars

NewQueryAny == \E sig \in Signatures : NewQuery(sig)

CreateTableAny == \E table \in 1..Len(TableTypes) : CreateTable(table)

MatchTableAny == \E i \in 1..Len(qworld) : MatchTable(i)

QInit ==
    /\ type = <<CompA, TagT>>
    /\ columns = new_columns(type)
    /\ eval = ecs_table_eval_columns(type)
    /\ frame_systems = <<>>
    /\ stage_columns = <<>>
    /\ in_progress = FALSE
    /\ notes = Unobserved
    /\ failures = 0
    /\ should_resolve = FALSE
    /\ last = [op |-> "init", target |-> "primary", arg |-> 0, ret |-> 0, index_set |-> NoRow, moved |-> {}, sent |-> <<>>]
    /\ QIdle

QNext ==
    \/ NewQueryAny
    \/ CreateTableAny
    \/ MatchTableAny
    \/ QueryFree

QSpec == QInit /\ [][QNext]_vars

(***************************************************************************)
(* Claims about the query matcher                                          *)
(***************************************************************************)
QueryAlive == queries # <<>> /\ ~aborted

\* the signature the query was created from
OriginalSig(query) == [query.sig EXCEPT !.has_refs = FALSE, !.cascade_by = 0]

\* the records the query holds for a table
RecordsOf(query, table) ==
    { i \in 1..Len(query.tables) : query.tables[i].table = table }

\* C6: with every table offered once, a query that was offered its tables one
\* by one (ecs_new_query, then ecs_query_match_table per table) holds the
\* matched tables, plan slots, components and references that ecs_new_query
\* yields when all the tables exist before it is called.
C6_IncrementalEqualsBatch ==
    (QueryAlive /\ Reoffers = 0) =>
        \A b \in ecs_new_query(qworld, OriginalSig(queries[1])) :
            /\ ~b.abort
            /\ b.query.tables = queries[1].tables

\* C6, as far as it goes: the incremental result is one of the results the
\* batch call can have, and they all agree on the matched tables, the
\* components and the references.
C6_SameMatchedTables ==
    (QueryAlive /\ Reoffers = 0) =>
        /\ [query |-> queries[1], abort |-> FALSE]
              \in ecs_new_query(qworld, OriginalSig(queries[1]))
        /\ \A b \in ecs_new_query(qworld, OriginalSig(queries[1])) :
              /\ ~b.abort
              /\ Len(b.query.tables) = Len(queries[1].tables)
              /\ \A i \in 1..Len(b.query.tables) :
                    /\ b.query.tables[i].table = queries[1].tables[i].table
                    /\ b.query.tables[i].components = queries[1].tables[i].components
                    /\ b.query.tables[i].references = queries[1].tables[i].references

\* C7: the matched-table list of a query holds at most one record for any
\* table, also when a table is offered to the query more than once.
C7_AtMostOneRecord ==
    queries # <<>> =>
        \A k \in 1..Len(qworld) : Cardinality(RecordsOf(queries[1], qworld[k])) <= 1

\* C7, amended: the list holds at most one record of a table for each time the
\* table was offered to the query; at most one when it was offered once.
C7_OneRecordPerOffer ==
    queries # <<>> =>
        \A k \in 1..Len(qworld) :
            Cardinality(RecordsOf(queries[1], qworld[k])) <= offers[k]

C7_Witness ==
    /\ QueryAlive
    /\ \E k \in 1..Len(qworld) :
         /\ offers[k] = 2
         /\ Cardinality(RecordsOf(queries[1], qworld[k])) = 2
    /\ \E k \in 1..Len(qworld) :
         /\ offers[k] = 1
         /\ Cardinality(RecordsOf(queries[1], qworld[k])) = 1

SlotEncoded(rec, k) ==
    LET slot == rec.columns[k]
    IN  \/ slot = 0
        \/ slot > 0 /\ slot <= Len(TableTypes[rec.table])
        \/ slot < 0 /\ 0 - slot <= Len(rec.references)

\* C8: in every matched table record, every plan slot is 0, or a positive
\* index no larger than the table's component column count, or the negative
\* of an index into the record's references.
C8_SlotEncoding ==
    QueryAlive =>
        \A i \in 1..Len(queries[1].tables) :
            \A k \in 1..Len(queries[1].sig.columns) :
                SlotEncoded(queries[1].tables[i], k)

\* C9: every matched table owns, as an entry of its own type, the component
\* of every And column with source Owned (the and_from_owned aggregate).
C9_OwnedAggregate ==
    queries # <<>> =>
        /\ Range(queries[1].and_from_owned) =
              { queries[1].sig.columns[k].component :
                  k \in { j \in 1..Len(queries[1].sig.columns) :
                            /\ queries[1].sig.columns[j].op = EcsOperAnd
                            /\ queries[1].sig.columns[j].from = EcsFromOwned } }
        /\ \A i \in 1..Len(queries[1].tables) :
              \A id \in Range(queries[1].and_from_owned) :
                  TypeHas(TableTypes[queries[1].tables[i].table], id)

\* a query on owned components holds a record, and left out a table that
\* has the aggregate through its prefab only
C9_Witness ==
    /\ QueryAlive
    /\ queries[1].and_from_owned # <<>>
    /\ queries[1].tables # <<>>
    /\ \E k \in 1..Len(qworld) :
         /\ RecordsOf(queries[1], qworld[k]) = {}
         /\ ecs_type_contains(TableTypes[qworld[k]], queries[1].and_from_owned,
                              TRUE, TRUE) # 0

\* C10: a query with Not columns on Self (not_from_self = N) matches no table
\* that has an id of N, owned or through its prefabs, and holds a record for
\* every table it was offered that passes match_table.
C10_NotFromSelf ==
    (queries # <<>> /\ queries[1].not_from_self # <<>>) =>
        /\ \A i \in 1..Len(queries[1].tables) :
              \A id \in Range(queries[1].not_from_self) :
                  ~ecs_type_has_entity_intern(
                      TableTypes[queries[1].tables[i].table], id, TRUE)
        /\ \A k \in 1..Len(qworld) :
              (offers[k] >= 1 /\ match_table(qworld[k], queries[1])) =>
                  RecordsOf(queries[1], qworld[k]) # {}

\* C10, as far as it goes: no record is ever of a table that has an id of N.
C10_NoMatchedTableHasN ==
    (queries # <<>> /\ queries[1].not_from_self # <<>>) =>
        \A i \in 1..Len(queries[1].tables) :
            \A id \in Range(queries[1].not_from_self) :
                ~ecs_type_has_entity_intern(
                    TableTypes[queries[1].tables[i].table], id, TRUE)

\* the positions of the signature columns of an operator and source kind
ColumnsOf(query, op, from) ==
    { k \in 1..Len(query.sig.columns) :
        /\ query.sig.columns[k].op = op
        /\ query.sig.columns[k].from = from }

\* the type of the table of a matched table record
RecordType(rec) == TableTypes[rec.table]

\* C11: no matched table of a query with And Shared columns owns any of
\* their components in its own type; it reaches each through its prefabs.
C11_SharedNotOwned ==
    queries # <<>> =>
        \A i \in 1..Len(queries[1].tables) :
            \A k \in ColumnsOf(queries[1], EcsOperAnd, EcsFromShared) :
                /\ ~TypeHas(RecordType(queries[1].tables[i]),
                            queries[1].sig.columns[k].component)
                /\ ecs_find_entity_in_prefabs(0, RecordType(queries[1].tables[i]),
                       queries[1].sig.columns[k].component, 0) # 0

\* C11, as far as it goes: a matched table does not own all of the And Shared
\* components, and has each of them in its type or through its prefabs.
C11_SharedNotAllOwned ==
    (queries # <<>> /\ ColumnsOf(queries[1], EcsOperAnd, EcsFromShared) # {}) =>
        \A i \in 1..Len(queries[1].tables) :
            /\ \E k \in ColumnsOf(queries[1], EcsOperAnd, EcsFromShared) :
                  ~TypeHas(RecordType(queries[1].tables[i]),
                           queries[1].sig.columns[k].component)
            /\ \A k \in ColumnsOf(queries[1], EcsOperAnd, EcsFromShared) :
                  ecs_type_has_entity_intern(RecordType(queries[1].tables[i]),
                      queries[1].sig.columns[k].component, TRUE)

\* the positions of the signature columns of an operator
ColumnsWithOp(query, op) ==
    { k \in 1..Len(query.sig.columns) : query.sig.columns[k].op = op }

\* a component is present for an Or column of a table: in a parent's table
\* for Container, in the table (or its prefabs) otherwise
OrPresent(elem, table_type, component) ==
    /\ component # 0
    /\ component \in Range(elem.type)
    /\ IF elem.from = EcsFromContainer
       THEN \E j \in 1..Len(Parents(table_type)) :
               ecs_type_has_entity_intern(
                   EntityType(EntityMask(Parents(table_type)[j])), component, TRUE)
       ELSE ecs_type_has_entity_intern(table_type, component, TRUE)

\* C12: for every Or column, in every matched record components[k] is a
\* member of the column's type that is present for the table (never 0), so
\* a table with none of the alternatives is not matched.
C12_OrPresent ==
    QueryAlive =>
        \A i \in 1..Len(queries[1].tables) :
            \A k \in ColumnsWithOp(queries[1], EcsOperOr) :
                OrPresent(queries[1].sig.columns[k],
                          RecordType(queries[1].tables[i]),
                          queries[1].tables[i].components[k])

\* C12, as far as it goes: it holds of the Or columns with source Self or
\* Container, the two that match_table tests.
C12_OrSelfContainer ==
    QueryAlive =>
        \A i \in 1..Len(queries[1].tables) :
            \A k \in ColumnsOf(queries[1], EcsOperOr, EcsFromSelf)
                     \cup ColumnsOf(queries[1], EcsOperOr, EcsFromContainer) :
                OrPresent(queries[1].sig.columns[k],
                          RecordType(queries[1].tables[i]),
                          queries[1].tables[i].components[k])

\* the parents of a table type whose table has the component
ParentsWith(table_type, component) ==
    { EntityMask(Parents(table_type)[j]) :
        j \in { n \in 1..Len(Parents(table_type)) :
                  ecs_type_has_entity_intern(
                      EntityType(EntityMask(Parents(table_type)[n])),
                      component, TRUE) } }

\* the plan slot of a record is a reference to the component on one of the
\* entities
SlotRefersTo(rec, k, component, entities) ==
    /\ rec.columns[k] < 0
    /\ 0 - rec.columns[k] <= Len(rec.references)
    /\ rec.references[0 - rec.columns[k]].component = component
    /\ rec.references[0 - rec.columns[k]].entity \in entities

WithoutColumn(query, k) ==
    postprocess(NewQueryRecord(
        [OriginalSig(query) EXCEPT
            !.columns = SubSeq(@, 1, k - 1) \o SubSeq(@, k + 1, Len(@))]))

\* C14: an Optional Self column never keeps a table from matching (every
\* offered table that matches the signature without the column has a
\* record); its plan slot is 0 when the table lacks the component and the
\* 1-based column index of the component when the table owns it with data.
C14_OptionalSelf ==
    queries # <<>> =>
        \A k \in ColumnsOf(queries[1], EcsOperOptional, EcsFromSelf) :
            /\ \A n \in 1..Len(qworld) :
                  (offers[n] >= 1
                   /\ match_table(qworld[n], WithoutColumn(queries[1], k))) =>
                      RecordsOf(queries[1], qworld[n]) # {}
            /\ \A i \in 1..Len(queries[1].tables) :
                  /\ ~ecs_type_has_entity_intern(RecordType(queries[1].tables[i]),
                         queries[1].sig.columns[k].component, TRUE)
                       => queries[1].tables[i].columns[k] = 0
                  /\ (/\ TypeHas(RecordType(queries[1].tables[i]),
                                 queries[1].sig.columns[k].component)
                      /\ HasData(queries[1].sig.columns[k].component))
                       => queries[1].tables[i].columns[k] =
                             ecs_type_index_of(RecordType(queries[1].tables[i]),
                                 queries[1].sig.columns[k].component) + 1

\* a query with an Optional Self column holds a record of a table that lacks
\* the component and a record of a table that owns it beyond the first column
C14_Witness ==
    /\ QueryAlive
    /\ \E k \in ColumnsOf(queries[1], EcsOperOptional, EcsFromSelf) :
         /\ \E i \in 1..Len(queries[1].tables) :
              /\ ~ecs_type_has_entity_intern(RecordType(queries[1].tables[i]),
                     queries[1].sig.columns[k].component, TRUE)
              /\ queries[1].tables[i].columns[k] = 0
         /\ \E i \in 1..Len(queries[1].tables) :
              /\ TypeHas(RecordType(queries[1].tables[i]),
                         queries[1].sig.columns[k].component)
              /\ queries[1].tables[i].columns[k] > 1

\* C15: a query that does not opt in to disabled entities holds no record of
\* a table with the Disabled marker, and a query that does not opt in to
\* prefabs holds no record of a table with the Prefab marker.
C15_Gating ==
    queries # <<>> =>
        \A i \in 1..Len(queries[1].tables) :
            /\ ~queries[1].sig.match_disabled
                 => ~TypeHas(RecordType(queries[1].tables[i]), EEcsDisabled)
            /\ ~queries[1].sig.match_prefab
                 => ~TypeHas(RecordType(queries[1].tables[i]), EEcsPrefab)

\* a table offered to the query and left out that the query would match if
\* it opted in to the marker
GatedOut(marker, optedIn) ==
    \E n \in 1..Len(qworld) :
        /\ offers[n] >= 1
        /\ TypeHas(TableTypes[qworld[n]], marker)
        /\ RecordsOf(queries[1], qworld[n]) = {}
        /\ match_table(qworld[n], optedIn)

C15_Witness ==
    /\ QueryAlive
    /\ ~queries[1].sig.match_disabled
    /\ ~queries[1].sig.match_prefab
    /\ GatedOut(EEcsDisabled, [queries[1] EXCEPT !.sig.match_disabled = TRUE])
    /\ GatedOut(EEcsPrefab, [queries[1] EXCEPT !.sig.match_prefab = TRUE])

\* the entity of an Entity column has the column's component
SourceHas(elem) == ecs_type_has_entity(EntityType(elem.source), elem.component)

\* C16: with a Not Entity(e) C column, when e's type does not contain C every
\* offered table that satisfies the other columns gets a record and no error
\* is raised; when e's type contains C no table is matched.
C16_NotEntity ==
    queries # <<>> =>
        \A k \in ColumnsOf(queries[1], EcsOperNot, EcsFromEntity) :
            IF SourceHas(queries[1].sig.columns[k])
            THEN queries[1].tables = <<>>
            ELSE /\ ~aborted
                 /\ \A n \in 1..Len(qworld) :
                       (offers[n] >= 1
                        /\ match_table(qworld[n], WithoutColumn(queries[1], k))) =>
                           RecordsOf(queries[1], qworld[n]) # {}

\* C16, as far as it goes: when e's type contains C no table is matched.
C16_NotEntityPresent ==
    queries # <<>> =>
        \A k \in ColumnsOf(queries[1], EcsOperNot, EcsFromEntity) :
            SourceHas(queries[1].sig.columns[k]) => queries[1].tables = <<>>

(***************************************************************************)
(* Type evaluation on its own: a table whose type was interned during a    *)
(* merge is initialised without evaluation (ecs_table_init, is_merging),   *)
(* and the merge then calls ecs_table_eval_columns on it.                  *)
(***************************************************************************)
EvalIds == {EEcsPrefab, CompA, TagT, PrefabPF, PrefabPG, FlagF1, FlagF2}

\* every type over EvalIds, sorted by id as the interner keeps them
EvalTypes == { SortedSeq(ids) : ids \in SUBSET EvalIds }

EvalInit ==
    /\ type \in EvalTypes
    /\ columns = new_columns(type)
    /\ frame_systems = <<>>
    /\ stage_columns = <<>>
    /\ in_progress = FALSE
    /\ notes = Unobserved
    /\ failures = 0
    /\ should_resolve = FALSE
    /\ last = [op |-> "init", target |-> "primary", arg |-> 0, ret |-> 0, index_set |-> NoRow, moved |-> {}, sent |-> <<>>]
    /\ eval = NoEval
    /\ QIdle

EvalColumns ==
    /\ ~eval.evaluated
    /\ eval' = ecs_table_eval_columns(type)
    /\ UNCHANGED freed
    /\ UNCHANGED tvars
    /\ UNCHANGED qvars

EvalNext == EvalColumns

EvalSpec == EvalInit /\ [][EvalNext]_vars

\* the PrefabParent flag ids of a type, and the parents they name
FlagsOf(t) == { c \in Range(t) : ~IsComponent(c) /\ HasPrefabParent(c) }

NamedParents(t) == { PrefabParentOf(c) : c \in FlagsOf(t) }

\* C17: after ecs_table_eval_columns, for any type, an id named as parent by
\* a PrefabParent flag id of the same type is not the table's entry in the
\* prefab index and did not reach the MORE_THAN_ONE_PREFAB test, and at most
\* one prefab was registered
C17_ParentsExcluded ==
    eval.evaluated =>
        /\ eval.prefab_index \notin NamedParents(type)
        /\ \A k \in 1..Len(eval.counted) : eval.counted[k] \notin NamedParents(type)
        /\ (eval.error = "none" => Len(eval.counted) <= 1)

\* C17, as far as the code keeps it: the same for a type with at most one
\* PrefabParent flag id
C17_OneFlagExcluded ==
    (eval.evaluated /\ Cardinality(FlagsOf(type)) <= 1) =>
        /\ eval.prefab_index \notin NamedParents(type)
        /\ \A k \in 1..Len(eval.counted) : eval.counted[k] \notin NamedParents(type)
        /\ (eval.error = "none" => Len(eval.counted) <= 1)

(***************************************************************************)
(* Claims about ecs_table_register_system                                  *)
(***************************************************************************)
Activate(system) == [system |-> system, activate |-> TRUE]

\* C18: ecs_table_register_system appends the system to frame_systems and
\* sends 'activate' to that system and to no other, if and only if the table
\* is non-empty at the call; a system registered while the table is empty is
\* sent 'activate' by the next call that makes the table non-empty while the
\* world is not in progress.
C18_RegisterActivates ==
    [][ /\ (last'.op = "register") =>
              /\ frame_systems' = Append(frame_systems, last'.arg)
              /\ last'.sent = IF Empty(columns) THEN <<>>
                              ELSE << Activate(last'.arg) >>
        /\ (last.op = "register" /\ last.arg \in Range(frame_systems)
                /\ Empty(columns) /\ ~Empty(columns') /\ ~in_progress) =>
              Activate(last.arg) \in Range(last'.sent)
      ]_vars

\* C18, as far as the code keeps it: the calls in which no allocation fails
C18_UnlessFailure ==
    [][ failures' = failures =>
          /\ (last'.op = "register") =>
                /\ frame_systems' = Append(frame_systems, last'.arg)
                /\ last'.sent = IF Empty(columns) THEN <<>>
                                ELSE << Activate(last'.arg) >>
          /\ (last.op = "register" /\ last.arg \in Range(frame_systems)
                  /\ Empty(columns) /\ ~Empty(columns') /\ ~in_progress) =>
                Activate(last.arg) \in Range(last'.sent)
      ]_vars

\* the two ways C18 fails, each on its own: the append, and the activation
\* at the next transition to non-empty
C18_Appends ==
    [][ (last'.op = "register") =>
            frame_systems' = Append(frame_systems, last'.arg) ]_vars

C18_ActivatedLater ==
    [][ (last.op = "register" /\ last.arg \in Range(frame_systems)
            /\ Empty(columns) /\ ~Empty(columns') /\ ~in_progress) =>
          Activate(last.arg) \in Range(last'.sent) ]_vars

(***************************************************************************)
(* Claims about zero-size columns                                          *)
(***************************************************************************)
\* C20: in every state reached by ecs_table_insert, ecs_table_grow and
\* ecs_table_delete, every column of element size zero holds no elements
C20_TagColumnsEmpty ==
    \A k \in 2..Len(columns) :
        columns[k].size = 0 => ecs_vector_count(columns[k].data) = 0

\* C20, as far as the code keeps it: ecs_table_insert and ecs_table_delete
\* leave every column of element size zero as it is
C20_InsertDeleteSkipTags ==
    [][ last'.op \in {"insert", "delete"} =>
          \A k \in 2..Len(columns) :
              columns[k].size = 0 => columns'[k] = columns[k] ]_vars

(***************************************************************************)
(* Claims about ecs_query_free                                             *)
(***************************************************************************)
Freed == queries # <<>> /\ freed # {}

\* C19: after ecs_query_free every allocation made for the query is
\* released: the signature, the matched-table vector, and of each record the
\* columns array, the components array and the references list
C19_AllReleased ==
    Freed => Allocations(queries[1]) \subseteq freed

\* C19, as far as the code keeps it: the signature and the matched-table
\* vector are released, which is everything when no table was matched
C19_SigAndVectorReleased ==
    Freed =>
        /\ { a \in Allocations(queries[1]) : a[1] \in {"sig", "tables"} } \subseteq freed
        /\ (queries[1].tables = <<>> => Allocations(queries[1]) \subseteq freed)

(***************************************************************************)
(* Claims about running out of memory                                      *)
(***************************************************************************)
ColumnLengths(cols) == [k \in 1..Len(cols) |-> ecs_vector_count(cols[k].data)]

\* C21: when growing a column fails for lack of memory in ecs_table_insert
\* or ecs_table_grow, the call returns -1 and leaves the table as it was:
\* every column keeps its length, no activation is sent and should_resolve
\* is unchanged
C21_FailureLeavesTable ==
    [][ (last'.op \in {"insert", "grow"} /\ last'.target = "primary"
            /\ failures' # failures) =>
          /\ last'.ret = RowSentinel
          /\ ColumnLengths(columns') = ColumnLengths(columns)
          /\ last'.sent = <<>>
          /\ should_resolve' = should_resolve
      ]_vars

\* C21, as far as the code keeps it: the failed call returns -1, sends no
\* activation, leaves should_resolve and the columns from the failing one
\* on as they were
C21_FailureReturnsSentinel ==
    [][ (last'.op \in {"insert", "grow"} /\ last'.target = "primary"
            /\ failures' # failures) =>
          /\ last'.ret = RowSentinel
          /\ last'.sent = <<>>
          /\ should_resolve' = should_resolve
      ]_vars

(***************************************************************************)
(* Claims about the activation sent by ecs_table_grow                      *)
(***************************************************************************)
\* C22: ecs_table_grow on the primary columns while the world is not in
\* progress, for any count >= 0, sends 'activate' to the registered systems
\* if and only if the table was empty before the call and is non-empty
\* after it
C22_GrowActivates ==
    [][ (last'.op = "grow" /\ last'.target = "primary" /\ ~in_progress) =>
          last'.sent = IF Empty(columns) /\ ~Empty(columns')
                       THEN activate_table(frame_systems, 0, TRUE)
                       ELSE <<>>
      ]_vars

\* C22, with the calls in which an allocation fails left out (C21): what is
\* left is the call with count = 0 on an empty table
C22_GrowActivatesUnlessFailure ==
    [][ (last'.op = "grow" /\ last'.target = "primary" /\ ~in_progress
            /\ failures' = failures) =>
          last'.sent = IF Empty(columns) /\ ~Empty(columns')
                       THEN activate_table(frame_systems, 0, TRUE)
                       ELSE <<>>
      ]_vars

\* C22, as far as the code keeps it: a call with count >= 1 in which no
\* allocation fails
C22_GrowByOneOrMore ==
    [][ (last'.op = "grow" /\ last'.target = "primary" /\ ~in_progress
            /\ failures' = failures /\ last'.arg >= 1) =>
          last'.sent = IF Empty(columns) /\ ~Empty(columns')
                       THEN activate_table(frame_systems, 0, TRUE)
                       ELSE <<>>
      ]_vars

(***************************************************************************)
(* The table store with the deferred phase: the world enters and leaves    *)
(* the in-progress phase, callers fetch the columns with                   *)
(* ecs_table_get_columns and insert or grow through the stage's shadow     *)
(* columns as well as through the primary columns.                         *)
(***************************************************************************)
InsertStage ==
    \E entity \in Entities, failAt \in FailPoints(InsertFailPoints(stage_columns)) :
      \E mv \in SUBSET InsertMovable(stage_columns, failAt) :
        Insert("stage", entity, failAt, mv)

GrowStage ==
    \E count \in 0..MaxGrow, first_entity \in Entities,
       failAt \in FailPoints(0..ColumnCount(stage_columns)) :
      \E mv \in SUBSET GrowMovable(stage_columns, count, failAt) :
        Grow("stage", count, first_entity, failAt, mv)

\* the deferred phase seen from the stage. The table is as ecs_table_init
\* left it or holds entity 1 after one insert, with or without system 1
\* registered; the calls are those made on the stage
StageInit ==
    \E populated \in BOOLEAN, registered \in BOOLEAN :
        /\ type \in StoreTypes
        /\ columns = IF populated
                     THEN InsertColumns(new_columns(type), 1, NoFail)
                     ELSE new_columns(type)
        /\ should_resolve =
              (populated /\ InsertResolve(new_columns(type), NoFail, {}, TRUE))
        /\ frame_systems = IF registered THEN <<1>> ELSE <<>>
        /\ eval = ecs_table_eval_columns(type)
        /\ stage_columns = <<>>
        /\ in_progress = FALSE
        /\ notes = Unobserved
        /\ failures = 0
        /\ last = [op |-> "init", target |-> "primary", arg |-> 0, ret |-> 0, index_set |-> NoRow, moved |-> {}, sent |-> <<>>]
        /\ QIdle

StageNext ==
    \/ GetColumns
    \/ BeginProgress
    \/ EndProgress
    \/ InsertStage
    \/ GrowStage

StageSpec == StageInit /\ [][StageNext]_vars

(***************************************************************************)
(* Claims about the shadow columns                                         *)
(***************************************************************************)
\* C23: while the world is in progress ecs_table_get_columns returns the
\* stage's shadow columns, creating them on first access and returning the
\* same ones on every later call; an insert or grow through the shadow
\* columns leaves the primary columns, the activation state (nothing is
\* sent) and should_resolve unchanged; while the world is not in progress
\* ecs_table_get_columns returns the primary columns
C23_ShadowColumns ==
    [][ /\ (last'.op = "get_columns" /\ in_progress) =>
              /\ last'.target = "stage"
              /\ stage_columns' = IF stage_columns = <<>>
                                  THEN new_columns(type) ELSE stage_columns
              /\ columns' = columns
        /\ (last'.op = "get_columns" /\ ~in_progress) =>
              /\ last'.target = "primary"
              /\ UNCHANGED <<columns, stage_columns>>
        /\ (last'.op \in {"insert", "grow"} /\ last'.target = "stage") =>
              /\ columns' = columns
              /\ last'.sent = <<>>
              /\ should_resolve' = should_resolve
      ]_vars

\* an insert through shadow columns that already held a row went through and
\* moved a data column, with a system registered on the non-empty table
C23_Witness ==
    /\ in_progress
    /\ last.op \in {"insert", "grow"} /\ last.target = "stage"
    /\ last.ret # RowSentinel
    /\ RowCount(stage_columns) >= 1
    /\ RowCount(columns) >= 1
    /\ frame_systems # <<>>

(***************************************************************************)
(* The primary columns across the deferred phase: insert, grow, delete and *)
(* register while the world enters and leaves the in-progress phase.       *)
(***************************************************************************)
PNext ==
    \/ InsertPrimary
    \/ GrowPrimary
    \/ DeleteAny
    \/ RegisterAny
    \/ BeginProgress
    \/ EndProgress

\* ecs_table_init, with the notifications of each system recorded
PInit ==
    /\ type \in StoreTypes
    /\ columns = new_columns(type)
    /\ eval = ecs_table_eval_columns(type)
    /\ frame_systems = <<>>
    /\ stage_columns = <<>>
    /\ in_progress = FALSE
    /\ notes = NoNotes
    /\ failures = 0
    /\ should_resolve = FALSE
    /\ last = [op |-> "init", target |-> "primary", arg |-> 0, ret |-> 0, index_set |-> NoRow, moved |-> {}, sent |-> <<>>]
    /\ QIdle

PSpec == PInit /\ [][PNext]_vars

Tracked(s) == notes # Unobserved /\ notes[s] \in {"none", "activate", "deactivate"}

\* C26: for any interleaving of insert, grow and delete on the primary
\* columns with the world entering and leaving the in-progress phase, the
\* notifications sent to a system registered on the empty table alternate,
\* starting with 'activate'
C26_Alternate ==
    [][ \A s \in Systems : \A k \in 1..Len(last'.sent) :
          (Tracked(s) /\ last'.op # "register" /\ last'.sent[k].system = s) =>
              (last'.sent[k].activate <=> notes[s] # "activate")
      ]_vars

(***************************************************************************)
(* Claims about the plan of Self and Container columns                     *)
(***************************************************************************)
\* the prefabs of a table type whose own table holds the component
PrefabHolders(table_type, component) ==
    { p \in PrefabsOf(table_type) : TypeHas(EntityType(p), component) }

\* C24: for a column And Self K with K a sized component, in a matched table
\* that does not own K the plan slot is negative and refers to K on the
\* prefab of the table that holds K; in a table that owns K the slot is the
\* 1-based position of K in the table's type
C24_SelfThroughPrefab ==
    queries # <<>> =>
        \A i \in 1..Len(queries[1].tables) :
            \A k \in ColumnsOf(queries[1], EcsOperAnd, EcsFromSelf) :
                HasData(queries[1].sig.columns[k].component) =>
                    IF TypeHas(RecordType(queries[1].tables[i]),
                               queries[1].sig.columns[k].component)
                    THEN \E n \in 1..Len(RecordType(queries[1].tables[i])) :
                            /\ RecordType(queries[1].tables[i])[n] =
                                  queries[1].sig.columns[k].component
                            /\ queries[1].tables[i].columns[k] = n
                    ELSE SlotRefersTo(queries[1].tables[i], k,
                            queries[1].sig.columns[k].component,
                            PrefabHolders(RecordType(queries[1].tables[i]),
                                          queries[1].sig.columns[k].component))

\* a query with a column And Self K has matched a table that owns K and a
\* table that reaches K through its prefab
C24_Witness ==
    /\ QueryAlive
    /\ \E k \in ColumnsOf(queries[1], EcsOperAnd, EcsFromSelf) :
         /\ HasData(queries[1].sig.columns[k].component)
         /\ \E i \in 1..Len(queries[1].tables) :
              /\ ~TypeHas(RecordType(queries[1].tables[i]),
                          queries[1].sig.columns[k].component)
              /\ queries[1].tables[i].columns[k] < 0
         /\ \E i \in 1..Len(queries[1].tables) :
              /\ TypeHas(RecordType(queries[1].tables[i]),
                         queries[1].sig.columns[k].component)
              /\ queries[1].tables[i].columns[k] > 0

\* the positions of the signature columns with source Container and
\* operator And or Optional
ContainerColumns(query) ==
    ColumnsOf(query, EcsOperAnd, EcsFromContainer)
        \cup ColumnsOf(query, EcsOperOptional, EcsFromContainer)

\* C25: for a column with source Container and operator And or Optional,
\* the plan slot of a matched record is never positive: the data is never
\* taken from the table's own column, even when the table owns the component
\* and none of its parents does
C25_ContainerNeverOwn ==
    queries # <<>> =>
        \A i \in 1..Len(queries[1].tables) :
            \A k \in ContainerColumns(queries[1]) :
                queries[1].tables[i].columns[k] <= 0

\* C25, as far as the code keeps it: the slot is not positive when a parent
\* of the table holds the component, and for every And column
C25_ContainerWithParent ==
    queries # <<>> =>
        \A i \in 1..Len(queries[1].tables) :
            \A k \in ContainerColumns(queries[1]) :
                (\/ queries[1].sig.columns[k].op = EcsOperAnd
                 \/ ParentsWith(RecordType(queries[1].tables[i]),
                                queries[1].sig.columns[k].component) # {})
                    => queries[1].tables[i].columns[k] <= 0

====
